---- MODULE Spec2Model ----
(***************************************************************************)
(* Model of sphinx-docfx-yaml: the symbol registry built by                *)
(* process_docstring (docfx_yaml/extension.py), the serializer             *)
(* build_finished, the inheritance resolver insert_inheritance, and the    *)
(* field normaliser get_data_structure (docfx_yaml/monkeypatch.py).        *)
(*                                                                         *)
(* A dotted Python name is modelled as the sequence of its segments        *)
(* ("pkg.sub" is <<"pkg", "sub">>, '' is <<>>): name.split('.') is the     *)
(* sequence itself, '.'.join a sub-sequence, s + '.Global' an Append.      *)
(* Segments are non-empty and contain no dot, so two names are equal as    *)
(* Python strings exactly when their segment sequences are equal.          *)
(***************************************************************************)
EXTENDS Integers, Sequences, FiniteSets, TLC

VARIABLES
    reg,      \* app.env.docfx_yaml_modules: module name -> list of records
    ev,       \* the (_type, name) of the event process_docstring handled last
    nev,      \* how many events process_docstring has handled
    phase,    \* "indexing" until build_finished has run, then "finished"
    written,  \* the files build_finished has dumped, in the order written
    bases,    \* obj.__bases__ of every class object
    rec,      \* the datam insert_inheritance is applied to
    robj,     \* the obj insert_inheritance is applied to
    napply,   \* how many times insert_inheritance was applied to rec
    node,     \* the field_list child handed to transform_all
    entries,  \* the entries _hacked_transform returned
    types,    \* the type table _hacked_transform returned
    data,     \* the result of get_data_structure
    fpc       \* transform_all's position: "field_list", then "done"

regVars == <<reg, ev, nev, phase, written>>

inhVars == <<bases, rec, robj, napply>>

fieldVars == <<node, entries, types, data, fpc>>

vars == <<regVars, inhVars, fieldVars>>

(* ---------------------------------------------------------------- bounds *)
MaxEvents == 3
MaxApply == 2
MaxSerEvents == 3
MaxBases == 2
MaxFields == 3

(* ------------------------------------------------------------ input sets *)
Types == {"module", "class", "method", "function", "attribute", "exception", "data"}

Names == { <<"a">>, <<"a", "b">>, <<"a", "b", "c">>,
           <<"a", "Global">>, <<"a", "Global", "c">> }

Classes == {"X", "A", "B", "C"}

Objs == Classes \cup {"plain"}

(* keys that a dict does not hold *)
NoName == <<"<absent>">>
NoList == << <<"<absent>">> >>

(* ------------------------------------------------------ helper operators *)
Front(s, k) == IF Len(s) >= k THEN SubSeq(s, 1, Len(s) - k) ELSE <<>>

Last(s) == s[Len(s)]

TYPE_MAPPING == [ method |-> "Method", function |-> "Method", module |-> "Namespace",
                  class |-> "Class", exception |-> "Class", attribute |-> "Property" ]

_get_cls_module(_type, name) ==
    CASE _type \in {"function", "exception"} ->
            [ok |-> TRUE, cls |-> NoName, module |-> Front(name, 1)]
      [] _type \in {"method", "attribute"} ->
            [ok |-> TRUE, cls |-> Front(name, 1), module |-> Front(name, 2)]
      [] _type = "class" ->
            [ok |-> TRUE, cls |-> NoName, module |-> Front(name, 1)]
      [] _type = "module" ->
            [ok |-> TRUE, cls |-> NoName, module |-> name]
      [] OTHER ->
            [ok |-> FALSE, cls |-> NoName, module |-> <<>>]

(* mutant: the guard tests "is None" instead of truthiness, so '' passes *)
TruthyNotNone(v) == v # NoName

(* truthiness of the cls / module value returned by _get_cls_module *)
Truthy(v) == v # NoName /\ v # <<>>

_create_datam(cls, module, name, _type) ==
    [ module |-> module,
      uid |-> name,
      type |-> TYPE_MAPPING[_type],
      _type |-> _type,
      name |-> <<Last(name)>>,
      fullName |-> name,
      class |-> IF Truthy(cls) THEN cls ELSE NoName,
      children |-> IF _type \in {"class", "module"} THEN <<>> ELSE NoList,
      langs |-> FALSE,
      inheritance |-> NoList ]

(* mutant: the holder's uid lacks the '.Global' suffix *)
GlobalHolderNoSuffix(module, name) ==
    [ module |-> module,
      uid |-> module,
      type |-> "Class",
      _type |-> "class",
      name |-> <<Last(module), "Global">>,
      fullName |-> name,
      class |-> NoName,
      children |-> <<>>,
      langs |-> TRUE,
      inheritance |-> NoList ]

GlobalHolder(module, name) ==
    [ module |-> module,
      uid |-> Append(module, "Global"),
      type |-> "Class",
      _type |-> "class",
      name |-> <<Last(module), "Global">>,
      fullName |-> name,
      class |-> NoName,
      children |-> <<>>,
      langs |-> TRUE,
      inheritance |-> NoList ]

_fullname(o) == <<"a", o>>

(* mutant: only the immediate bases are recorded, without the recursion *)
BaseWalkShallow(b, o) ==
    IF o \notin Classes THEN <<>>
    ELSE [i \in 1..Len(b[o]) |-> _fullname(b[o][i])]

RECURSIVE BaseWalk(_, _)
(* the names insert_inheritance appends for obj, in the order it appends   *)
(* them: each base, then that base's own walk                              *)
BaseWalk(b, o) ==
    IF o \notin Classes THEN <<>>
    ELSE LET RECURSIVE Over(_)
             Over(i) == IF i > Len(b[o]) THEN <<>>
                        ELSE <<_fullname(b[o][i])>> \o BaseWalk(b, b[o][i]) \o Over(i + 1)
         IN Over(1)

(* hasattr(obj, '__bases__') holds of the class objects only *)
insert_inheritance(b, o, datam) ==
    IF o \in Classes
    THEN [datam EXCEPT !.inheritance =
              (IF datam.inheritance = NoList THEN <<>> ELSE datam.inheritance)
              \o BaseWalk(b, o)]
    ELSE datam

ChildMatch(_type, obj, datam) ==
    \/ /\ _type \in {"method", "attribute"}
       /\ obj._type = "class"
       /\ obj.uid = datam.class
    \/ /\ _type = "function"
       /\ obj._type = "class"
       /\ obj.name = Append(datam.module, "Global")
    \/ /\ _type \in {"class", "exception"}
       /\ obj._type = "module"
       /\ obj.module = datam.module

Min(S) == CHOOSE x \in S : \A y \in S : x <= y

(* mutant: the scan has no break, every matching record gets the uid *)
insert_children_nobreak(insert_module, _type, datam) ==
    [i \in 1..Len(insert_module) |->
        IF ChildMatch(_type, insert_module[i], datam)
        THEN [insert_module[i] EXCEPT !.children = Append(@, datam.uid)]
        ELSE insert_module[i]]

(* mutant: the accepted parent's children are replaced, not appended to *)
insert_children_reset(insert_module, _type, datam) ==
    LET hits == { i \in 1..Len(insert_module) : ChildMatch(_type, insert_module[i], datam) }
    IN IF hits = {} THEN insert_module
       ELSE [insert_module EXCEPT ![Min(hits)].children = <<datam.uid>>]

insert_children(insert_module, _type, datam) ==
    LET hits == { i \in 1..Len(insert_module) : ChildMatch(_type, insert_module[i], datam) }
    IN IF hits = {} THEN insert_module
       ELSE [insert_module EXCEPT ![Min(hits)].children = Append(@, datam.uid)]

(* the registry after process_docstring(app, _type, name, obj, ...) *)
Indexed(r, b, _type, name, obj) ==
    LET cm == _get_cls_module(_type, name)
        module == cm.module
    IN IF ~cm.ok \/ ~Truthy(module) THEN r
       ELSE LET datam == _create_datam(cm.cls, module, name, _type)
                old == IF module \in DOMAIN r THEN r[module] ELSE <<>>
                pos == Len(old) + 1
                l1 == Append(old, datam)
                l2 == IF _type = "module" THEN Append(l1, GlobalHolder(module, name)) ELSE l1
                l3 == insert_children(l2, _type, datam)
                l4 == [l3 EXCEPT ![pos] = insert_inheritance(b, obj, @)]
            IN [k \in DOMAIN r \cup {module} |-> IF k = module THEN l4 ELSE r[k]]

(* the object autodoc hands over with an event: only classes have __bases__ *)
EventObjs(_type) == IF _type \in {"class", "exception"} THEN {"X"} ELSE {"plain"}

ChainBases == [c \in Classes |-> CASE c = "X" -> <<"A">>
                                   [] c = "A" -> <<"B">>
                                   [] c = "B" -> <<"C">>
                                   [] OTHER -> <<>>]

NoEvent == [type |-> "none", name |-> <<>>]

(* ---------------------------------------------------------- registry run *)
(* the parts of the state a run does not exercise *)
IdleInh ==
    /\ bases = ChainBases
    /\ rec = _create_datam(NoName, <<"a">>, <<"a", "X">>, "class")
    /\ robj = "plain"
    /\ napply = 0

IdleReg ==
    /\ reg = [k \in {} |-> <<>>]
    /\ ev = NoEvent
    /\ nev = 0
    /\ phase = "indexing"
    /\ written = <<>>

IdleField ==
    /\ node = <<>>
    /\ entries = <<>>
    /\ types = <<>>
    /\ data = <<>>
    /\ fpc = "idle"

Init ==
    /\ IdleReg
    /\ IdleInh
    /\ IdleField

process_docstring(_type, name, obj) ==
    /\ phase = "indexing"
    /\ nev < MaxEvents
    /\ reg' = Indexed(reg, bases, _type, name, obj)
    /\ ev' = [type |-> _type, name |-> name]
    /\ nev' = nev + 1
    /\ UNCHANGED <<phase, written, inhVars, fieldVars>>

RECURSIVE KeyOrders(_)
(* every order in which a dict may hand out the keys of S *)
KeyOrders(S) ==
    IF S = {} THEN { <<>> }
    ELSE UNION { { <<k>> \o o : o \in KeyOrders(S \ {k}) } : k \in S }

docfx_yaml_mode == "module"

ModuleFile(filename, yaml_data) ==
    [ file |-> Append(filename, "yml"), items |-> yaml_data, toc |-> <<>> ]

TocEntry(filename) == [ name |-> filename, href |-> Append(filename, "yml") ]

TocFile(toc_yaml) == [ file |-> <<"toc", "yml">>, items |-> <<>>, toc |-> toc_yaml ]

RECURSIVE DumpedNoSkip(_, _, _)
(* mutant: the loop lacks the "if not filename: continue" skip *)
DumpedNoSkip(r, order, i) ==
    IF i > Len(order) THEN [files |-> <<>>, toc_yaml |-> <<>>]
    ELSE LET rest == DumpedNoSkip(r, order, i + 1)
             filename == order[i]
         IN [ files |-> <<ModuleFile(filename, r[filename])>> \o rest.files,
              toc_yaml |-> <<TocEntry(filename)>> \o rest.toc_yaml ]

RECURSIVE Dumped(_, _, _)
(* the loop over iter_data.items(): the files written so far followed by   *)
(* the toc_yaml accumulated so far, for the keys order[i..]                *)
Dumped(r, order, i) ==
    IF i > Len(order) THEN [files |-> <<>>, toc_yaml |-> <<>>]
    ELSE LET rest == Dumped(r, order, i + 1)
             filename == order[i]
         IN IF filename = <<>> THEN rest
            ELSE [ files |-> <<ModuleFile(filename, r[filename])>> \o rest.files,
                   toc_yaml |-> <<TocEntry(filename)>> \o rest.toc_yaml ]

build_finished(order) ==
    /\ phase = "indexing"
    /\ docfx_yaml_mode = "module"
    /\ LET out == Dumped(reg, order, 1)
       IN written' = out.files \o <<TocFile(out.toc_yaml)>>
    /\ phase' = "finished"
    /\ UNCHANGED <<reg, ev, nev, inhVars, fieldVars>>

Next ==
    \/ \E _type \in Types, name \in Names : \E obj \in EventObjs(_type) :
            process_docstring(_type, name, obj)
    \/ \E order \in KeyOrders(DOMAIN reg) : build_finished(order)

Spec == Init /\ [][Next]_vars

(* --------------------------------------------- serializer, any registry *)
(* build_finished guards against a module list kept under the key ''.      *)
(* process_docstring never creates that key, so the serializer is also run *)
(* on its own, from every registry a short run of events builds, with and  *)
(* without a list of module-less records under ''.                         *)
Orphan == _create_datam(NoName, <<>>, <<"a">>, "function")

SerEvents ==
    { [type |-> "module", name |-> <<"a">>],
      [type |-> "module", name |-> <<"a", "b">>],
      [type |-> "class", name |-> <<"a", "b">>],
      [type |-> "method", name |-> <<"a", "b", "c">>],
      [type |-> "function", name |-> <<"a", "b", "c">>] }

RECURSIVE RegAfter(_, _)
(* the registry after the first k events of s *)
RegAfter(s, k) ==
    IF k = 0 THEN [m \in {} |-> <<>>]
    ELSE Indexed(RegAfter(s, k - 1), ChainBases, s[k].type, s[k].name,
                 CHOOSE o \in EventObjs(s[k].type) : TRUE)

WithOrphans(r, orphans) ==
    IF orphans THEN [m \in DOMAIN r \cup {<<>>} |-> IF m = <<>> THEN <<Orphan>> ELSE r[m]]
    ELSE r

InitSer ==
    /\ \E k \in 0..MaxSerEvents : \E s \in [1..k -> SerEvents] : \E orphans \in BOOLEAN :
          /\ reg = WithOrphans(RegAfter(s, k), orphans)
          /\ ev = IF k = 0 THEN NoEvent ELSE s[k]
          /\ nev = k
    /\ phase = "indexing"
    /\ written = <<>>
    /\ IdleInh
    /\ IdleField

NextSer == \E order \in KeyOrders(DOMAIN reg) : build_finished(order)

SpecSer == InitSer /\ [][NextSer]_vars

(* --------------------------------------------------- inheritance resolver *)
(* insert_inheritance as a function of the record and of the object graph: *)
(* the class graph is any acyclic one over Classes with at most MaxBases   *)
(* bases per class, the resolver is applied up to MaxApply times to one    *)
(* record.                                                                 *)
Rank == [c \in Classes |-> CASE c = "X" -> 4 [] c = "A" -> 3 [] c = "B" -> 2 [] OTHER -> 1]

Tuples(S) ==
    UNION { { t \in [1..n -> S] : \A i, j \in 1..n : t[i] = t[j] => i = j } : n \in 0..MaxBases }

Hierarchies ==
    { h \in [Classes -> Tuples(Classes)] :
        \A c \in Classes : \A i \in 1..Len(h[c]) : Rank[h[c][i]] < Rank[c] }

InitInh ==
    /\ bases \in Hierarchies
    /\ robj \in Objs
    /\ rec = _create_datam(NoName, <<"a">>, <<"a", "X">>, "class")
    /\ napply = 0
    /\ IdleReg
    /\ IdleField

resolve_inheritance ==
    /\ napply < MaxApply
    /\ rec' = insert_inheritance(bases, robj, rec)
    /\ napply' = napply + 1
    /\ UNCHANGED <<regVars, bases, robj, fieldVars>>

SpecInh == InitInh /\ [][resolve_inheritance]_vars

(* ------------------------------------------------- field-list transformer *)
(* A field is [name, body]: name is the field name's whitespace-separated  *)
(* words, body the paragraphs of the field body. A paragraph carries its   *)
(* rendered text as a sequence of characters, the target of its first      *)
(* cross-reference (<<>> when it has none) and whether that reference has  *)
(* a literal child.                                                        *)
Para(text, xref, literal) == [text |-> text, xref |-> xref, literal |-> literal]

Plain(text) == << Para(text, <<>>, FALSE) >>

TypeTexts ==
    { <<"i", " ", "o", "r", " ", "s">>,
      <<"~", "F">>,
      <<"@", "B", "\n">>,
      <<"s", "\n">> }

FieldSamples ==
    { [name |-> <<"param", "x">>, body |-> Plain(<<"d">>)],
      [name |-> <<"param", "i", "y">>, body |-> Plain(<<"d">>)],
      [name |-> <<"var", "x">>, body |-> Plain(<<"d">>)],
      [name |-> <<"vartype", "x">>, body |-> Plain(<<"i", " ", "o", "r", " ", "s">>)],
      [name |-> <<"raises">>,
       body |-> << Para(<<"E">>, <<"E">>, TRUE), Para(<<"G">>, <<"G">>, FALSE) >>],
      [name |-> <<"raises", "E">>, body |-> Plain(<<"d">>)],
      [name |-> <<"rtype">>, body |-> Plain(<<"i", " ", "o", "r", "\n", "~", "F">>)],
      [name |-> <<"returns">>, body |-> Plain(<<"d">>)],
      [name |-> <<"foo">>, body |-> Plain(<<"d">>)] }
    \cup { [name |-> <<"type", "x">>, body |-> Plain(t)] : t \in TypeTexts }
    \cup { [name |-> <<"type", "y">>, body |-> <<>>] }

(* str -> its characters, for the words used as types in ':param T x:' *)
Chars(w) == <<w>>

(* w[0:1].upper() + w[1:] *)
Capitalized(w) ==
    CASE w = "raises" -> "Raises"
      [] w = "foo" -> "Foo"
      [] w = "param" -> "Param"
      [] w = "var" -> "Var"
      [] w = "type" -> "Type"
      [] w = "vartype" -> "Vartype"
      [] w = "rtype" -> "Rtype"
      [] w = "returns" -> "Returns"
      [] OTHER -> w

(* the schema the host hands to _hacked_transform *)
typemap(fieldtype) ==
    CASE fieldtype = "param" -> [name |-> "parameter", is_typefield |-> FALSE]
      [] fieldtype = "type" -> [name |-> "parameter", is_typefield |-> TRUE]
      [] fieldtype = "var" -> [name |-> "variable", is_typefield |-> FALSE]
      [] fieldtype = "vartype" -> [name |-> "variable", is_typefield |-> TRUE]
      [] fieldtype = "raises" -> [name |-> "exceptions", is_typefield |-> FALSE]
      [] fieldtype = "returns" -> [name |-> "returnvalue", is_typefield |-> FALSE]
      [] fieldtype = "rtype" -> [name |-> "returntype", is_typefield |-> FALSE]
      [] OTHER -> [name |-> "None", is_typefield |-> FALSE]

has_arg(typename) == typename \in {"parameter", "variable", "exceptions"}

is_typed(typename) == typename \in {"parameter", "variable"}

is_grouped(typename) == typename \in {"parameter", "variable", "exceptions"}

Put(f, k, v) == [x \in DOMAIN f \cup {k} |-> IF x = k THEN v ELSE f[x]]

(* the inline children of a single-paragraph body, else its block children *)
Content(body) ==
    IF Len(body) = 1 THEN (IF body[1].text = <<>> THEN <<>> ELSE <<body[1]>>)
    ELSE [i \in 1..Len(body) |-> [body[i] EXCEPT !.literal = FALSE, !.xref = <<"<block>">>]]

IsInline(n) == n.xref # <<"<block>">>

Tail1(s) == SubSeq(s, 2, Len(s))

(* mutant: an unknown field is renamed but gets no entry *)
FieldStepDropsUnknown(acc, i) ==
    LET field == acc.node[i]
        fieldtype == field.name[1]
        fieldarg == Tail1(field.name)
        tm == typemap(fieldtype)
        typename == tm.name
    IN IF typename = "None" \/ has_arg(typename) # (fieldarg # <<>>)
       THEN LET renamed == [field EXCEPT !.name = <<Capitalized(fieldtype)>> \o fieldarg]
            IN [acc EXCEPT !.node[i] = renamed]
       ELSE IF tm.is_typefield
       THEN LET content == SelectSeq(Content(field.body), IsInline)
            IN IF content # <<>>
               THEN [acc EXCEPT !.types = Put(@, <<typename, fieldarg>>, content)]
               ELSE acc
       ELSE LET split == is_typed(typename) /\ Len(fieldarg) >= 2
                argname == IF split THEN Tail1(fieldarg) ELSE fieldarg
                types1 == IF split
                          THEN Put(acc.types, <<typename, argname>>,
                                   Plain(Chars(fieldarg[1])))
                          ELSE acc.types
                entry == [arg |-> argname, content |-> Content(field.body)]
            IN IF is_grouped(typename)
               THEN IF typename \in DOMAIN acc.groupindices
                    THEN [acc EXCEPT !.types = types1,
                                     !.entries[acc.groupindices[typename]].items =
                                          Append(@, entry)]
                    ELSE [acc EXCEPT !.types = types1,
                                     !.groupindices = Put(@, typename, Len(acc.entries) + 1),
                                     !.entries = Append(@, [kind |-> typename, name |-> <<>>,
                                                            items |-> <<entry>>])]
               ELSE [acc EXCEPT !.types = types1,
                                !.entries = Append(@, [kind |-> typename, name |-> <<>>,
                                                       items |-> <<entry>>])]

(* one pass of the loop of _hacked_transform over field i *)
FieldStep(acc, i) ==
    LET field == acc.node[i]
        fieldtype == field.name[1]
        fieldarg == Tail1(field.name)
        tm == typemap(fieldtype)
        typename == tm.name
    IN IF typename = "None" \/ has_arg(typename) # (fieldarg # <<>>)
       THEN LET renamed == [field EXCEPT !.name = <<Capitalized(fieldtype)>> \o fieldarg]
            IN [acc EXCEPT !.node[i] = renamed,
                           !.entries = Append(@, [kind |-> "field", name |-> renamed.name,
                                                  items |-> <<>>])]
       ELSE IF tm.is_typefield
       THEN LET content == SelectSeq(Content(field.body), IsInline)
            IN IF content # <<>>
               THEN [acc EXCEPT !.types = Put(@, <<typename, fieldarg>>, content)]
               ELSE acc
       ELSE LET split == is_typed(typename) /\ Len(fieldarg) >= 2
                argname == IF split THEN Tail1(fieldarg) ELSE fieldarg
                types1 == IF split
                          THEN Put(acc.types, <<typename, argname>>,
                                   Plain(Chars(fieldarg[1])))
                          ELSE acc.types
                entry == [arg |-> argname, content |-> Content(field.body)]
            IN IF is_grouped(typename)
               THEN IF typename \in DOMAIN acc.groupindices
                    THEN [acc EXCEPT !.types = types1,
                                     !.entries[acc.groupindices[typename]].items =
                                          Append(@, entry)]
                    ELSE [acc EXCEPT !.types = types1,
                                     !.groupindices = Put(@, typename, Len(acc.entries) + 1),
                                     !.entries = Append(@, [kind |-> typename, name |-> <<>>,
                                                            items |-> <<entry>>])]
               ELSE [acc EXCEPT !.types = types1,
                                !.entries = Append(@, [kind |-> typename, name |-> <<>>,
                                                       items |-> <<entry>>])]

RECURSIVE FieldLoop(_, _)
FieldLoop(fields, i) ==
    IF i = 0
    THEN [node |-> fields, entries |-> <<>>, types |-> <<>>, groupindices |-> <<>>]
    ELSE FieldStep(FieldLoop(fields, i - 1), i)

_hacked_transform(fields) == FieldLoop(fields, Len(fields))

(* the rendered text of a list of content nodes *)
RECURSIVE transform_node(_)
transform_node(content) ==
    IF content = <<>> THEN <<>> ELSE content[1].text \o transform_node(Tail1(content))

IsOrAt(t, i) ==
    /\ i + 3 <= Len(t)
    /\ t[i] = " " /\ t[i + 1] = "o" /\ t[i + 2] = "r"
    /\ t[i + 3] \in {" ", "\n"}

RECURSIVE SplitOr(_)
(* re.split(' or[ \n]', t) *)
SplitOr(t) ==
    LET at == { i \in 1..Len(t) : IsOrAt(t, i) }
    IN IF at = {} THEN <<t>>
       ELSE LET i == Min(at)
            IN <<SubSeq(t, 1, i - 1)>> \o SplitOr(SubSeq(t, i + 4, Len(t)))

HasSigil(t) == t # <<>> /\ t[1] \in {"@", "~"}

RECURSIVE RStripNewline(_)
(* t.rstrip('\n') *)
RStripNewline(t) ==
    IF t # <<>> /\ t[Len(t)] = "\n" THEN RStripNewline(SubSeq(t, 1, Len(t) - 1)) ELSE t

(* lines 210-214: the candidates of a return type text *)
ReturnTypes(t) ==
    LET parts == SplitOr(t)
    IN [k \in 1..Len(parts) |->
           RStripNewline(IF HasSigil(parts[k]) THEN Tail1(parts[k]) ELSE parts[k])]

(* lines 230-238: the candidates of a parameter type text *)
ParameterTypes(t) ==
    LET parts == SplitOr(t)
    IN [k \in 1..Len(parts) |->
           IF HasSigil(parts[k]) THEN RStripNewline(Tail1(parts[k])) ELSE parts[k]]

(* the value None of a parameter type *)
NoneText == <<"<None>">>

make_param(_id, _description, _type) ==
    [ id |-> _id, description |-> _description,
      has_type |-> _type # <<>>, type |-> _type ]

ParamEntry(kind, tps, item) ==
    LET key == <<kind, item.arg>>
        _type == IF key \in DOMAIN tps THEN transform_node(tps[key]) ELSE NoneText
        _description == transform_node(item.content)
    IN IF kind = "parameter"
       THEN make_param(item.arg, _description,
                       IF _type # NoneText /\ _type # <<>> THEN ParameterTypes(_type)
                       ELSE <<>>)
       ELSE make_param(item.arg, _description, <<_type>>)

RECURSIVE RaisesOfBody(_)
RaisesOfBody(body) ==
    IF body = <<>> THEN <<>>
    ELSE (IF body[1].xref # <<>> /\ body[1].literal
          THEN << [type |-> body[1].xref, desc |-> body[1].text] >> ELSE <<>>)
         \o RaisesOfBody(Tail1(body))

RECURSIVE extract_exception_desc(_)
extract_exception_desc(field_object) ==
    IF field_object = <<>> THEN <<>>
    ELSE (IF field_object[1].name = <<"Raises">> THEN RaisesOfBody(field_object[1].body)
          ELSE <<>>)
         \o extract_exception_desc(Tail1(field_object))

EmptyData ==
    [ parameters |-> <<>>, variables |-> <<>>, exceptions |-> <<>>,
      return |-> [has_type |-> FALSE, type |-> <<>>,
                  has_description |-> FALSE, description |-> <<>>] ]

(* one pass of the loop of get_data_structure over an entry *)
EntryStep(d, entry, tps, field_object) ==
    CASE entry.kind = "field" -> d
      [] entry.kind = "exceptions" ->
            [d EXCEPT !.exceptions = @ \o
                [k \in 1..Len(entry.items) |->
                    [type |-> entry.items[k].arg, has_description |-> TRUE,
                     description |-> transform_node(entry.items[k].content)]]]
      [] entry.kind = "returntype" ->
            LET returntype_ret == transform_node(entry.items[1].content)
            IN IF returntype_ret # <<>>
               THEN [d EXCEPT !.return.has_type = TRUE,
                              !.return.type = @ \o ReturnTypes(returntype_ret)]
               ELSE d
      [] entry.kind = "returnvalue" ->
            LET returnvalue_ret == transform_node(entry.items[1].content)
            IN IF returnvalue_ret # <<>>
               THEN [d EXCEPT !.return.has_description = TRUE,
                              !.return.description = returnvalue_ret]
               ELSE d
      [] entry.kind \in {"parameter", "variable"} ->
            LET made == [k \in 1..Len(entry.items) |-> ParamEntry(entry.kind, tps, entry.items[k])]
                ret_list == extract_exception_desc(field_object)
                raised == [k \in 1..Len(ret_list) |->
                              [type |-> ret_list[k].type, has_description |-> FALSE,
                               description |-> <<>>]]
            IN IF entry.kind = "parameter"
               THEN [d EXCEPT !.parameters = @ \o made, !.exceptions = @ \o raised]
               ELSE [d EXCEPT !.variables = @ \o made, !.exceptions = @ \o raised]

RECURSIVE EntryLoop(_, _, _, _)
EntryLoop(ents, i, tps, field_object) ==
    IF i = 0 THEN EmptyData
    ELSE EntryStep(EntryLoop(ents, i - 1, tps, field_object), ents[i], tps, field_object)

get_data_structure(ents, tps, field_object) ==
    EntryLoop(ents, Len(ents), tps, field_object)

FieldLists == UNION { [1..n -> FieldSamples] : n \in 1..MaxFields }

InitField ==
    /\ node \in FieldLists
    /\ entries = <<>>
    /\ types = <<>>
    /\ data = EmptyData
    /\ fpc = "field_list"
    /\ IdleReg
    /\ IdleInh

(* transform_all on a field_list child: _hacked_transform rewrites the     *)
(* names of passed-through fields in place, get_data_structure then reads  *)
(* the entries, the type table and the rewritten field list                *)
transform_all ==
    /\ fpc = "field_list"
    /\ LET t == _hacked_transform(node)
       IN /\ node' = t.node
          /\ entries' = t.entries
          /\ types' = t.types
          /\ data' = get_data_structure(t.entries, t.types, t.node)
    /\ fpc' = "done"
    /\ UNCHANGED <<regVars, inhVars>>

SpecField == InitField /\ [][transform_all]_vars

(* -------------------------------------------------- reading the registry *)
Range(s) == { s[i] : i \in DOMAIN s }

Positions == { <<m, i>> : m \in DOMAIN reg, i \in 1..MaxEvents * 2 }

Slots == { p \in Positions : p[2] <= Len(reg[p[1]]) }

At(p) == reg[p[1]][p[2]]

IsHolder(r) == r.langs

IsModuleRecord(r) == r._type = "module"

IsRealClass(r) == r._type = "class" /\ ~r.langs

IsMember(r) == r._type \in {"method", "attribute"}

ChildrenOf(r) == IF r.children = NoList THEN {} ELSE Range(r.children)

RECURSIVE MembersFrom(_, _, _)
(* uids of the method/attribute records of list l at positions i.. whose   *)
(* owning class is c, in list order                                        *)
MembersFrom(l, i, c) ==
    IF i > Len(l) THEN <<>>
    ELSE (IF IsMember(l[i]) /\ l[i].class = c THEN <<l[i].uid>> ELSE <<>>)
         \o MembersFrom(l, i + 1, c)

NoDuplicates(s) == \A i, j \in DOMAIN s : s[i] = s[j] => i = j

(* C1: once the module event of m has been processed, every function      *)
(* record of m has its uid in the children of the holder m.Global and in   *)
(* the children of no other record, for every module name m (dotted ones   *)
(* included).                                                              *)
C1_FunctionsUnderGlobal ==
    \A p \in Slots :
        LET m == p[1]
            f == At(p)
        IN (f._type = "function" /\ \E j \in 1..(p[2] - 1) : IsModuleRecord(reg[m][j]))
           => /\ \E h \in 1..Len(reg[m]) :
                    /\ IsHolder(reg[m][h])
                    /\ reg[m][h].uid = Append(m, "Global")
                    /\ f.uid \in ChildrenOf(reg[m][h])
              /\ \A q \in Slots :
                    f.uid \in ChildrenOf(At(q))
                    => q[1] = m /\ IsHolder(At(q)) /\ At(q).uid = Append(m, "Global")

(* C2: the children of every class record are exactly the uids of the     *)
(* method and attribute records whose owning class is that class (those    *)
(* discovered after the class, as the discovery contract orders them),     *)
(* without duplicates and in processing order; and no method or attribute  *)
(* is linked into a Global holder or a module record.                      *)
C2_ClassChildrenExact ==
    /\ \A p \in Slots :
          IsRealClass(At(p))
          => /\ At(p).children = MembersFrom(reg[p[1]], p[2] + 1, At(p).uid)
             /\ NoDuplicates(At(p).children)
    /\ \A p, q \in Slots :
          (IsMember(At(p)) /\ (IsHolder(At(q)) \/ IsModuleRecord(At(q))))
          => At(p).uid \notin ChildrenOf(At(q))

(* C3: when the discovered symbols have pairwise distinct names, no two   *)
(* records of the registry, holders included, have the same uid.           *)
C3_UidUnique ==
    (\A p, q \in Slots :
        (p # q /\ ~IsHolder(At(p)) /\ ~IsHolder(At(q))) => At(p).uid # At(q).uid)
    => (\A p, q \in Slots : p # q => At(p).uid # At(q).uid)

(* C4: the holder of m is never merged with a real class m.Global: the    *)
(* holder's children are uids of free functions of m only, and the methods *)
(* and attributes of a real class m.Global are children of the real class. *)
C4_HolderNotMerged ==
    /\ \A p \in Slots :
          IsHolder(At(p))
          => \A u \in ChildrenOf(At(p)) :
                \E i \in 1..Len(reg[p[1]]) :
                    reg[p[1]][i]._type = "function" /\ reg[p[1]][i].uid = u
    /\ \A p \in Slots :
          (IsRealClass(At(p)) /\ At(p).uid = Append(p[1], "Global"))
          => At(p).children = MembersFrom(reg[p[1]], p[2] + 1, At(p).uid)

(* C5 as stated: a list with a module record holds exactly one holder,    *)
(* placed right after the module record; a list without a module record    *)
(* holds no holder.                                                        *)
C5_ExactlyOneHolder ==
    \A m \in DOMAIN reg :
        LET mods == { i \in 1..Len(reg[m]) : IsModuleRecord(reg[m][i]) }
            holders == { i \in 1..Len(reg[m]) : IsHolder(reg[m][i]) }
        IN IF mods = {} THEN holders = {}
           ELSE /\ Cardinality(holders) = 1
                /\ \A h \in holders : h - 1 \in mods

HolderPairing ==
    \A m \in DOMAIN reg : \A i \in 1..Len(reg[m]) :
        /\ IsModuleRecord(reg[m][i])
           => /\ i < Len(reg[m])
              /\ IsHolder(reg[m][i + 1])
              /\ reg[m][i + 1].uid = Append(m, "Global")
              /\ reg[m][i + 1]._type = "class"
        /\ IsHolder(reg[m][i])
           => i > 1 /\ IsModuleRecord(reg[m][i - 1])

HolderBornEmpty ==
    \A m \in DOMAIN reg' : \A i \in 1..Len(reg'[m]) :
        (IsHolder(reg'[m][i]) /\ (m \notin DOMAIN reg \/ i > Len(reg[m])))
        => reg'[m][i].children = <<>>

(* C5 as amended: every module record is immediately followed by a holder *)
(* of its module (uid m.Global, class kind, created with empty children)   *)
(* and every holder immediately follows a module record, so a list holds   *)
(* one holder per module record and none when it has no module record.     *)
C5_HolderFollowsModule == [](HolderPairing) /\ [][HolderBornEmpty]_vars

W5_TwoModuleRecords ==
    \E m \in DOMAIN reg :
        /\ Cardinality({ i \in 1..Len(reg[m]) : IsHolder(reg[m][i]) }) = 2
        /\ \E i \in 1..Len(reg[m]) : IsRealClass(reg[m][i])

(* an event whose owning module the table of kinds cannot resolve *)
Unresolvable(e) ==
    \/ e.type \notin {"module", "class", "method", "function", "attribute", "exception"}
    \/ e.type \in {"function", "exception", "class"} /\ Len(e.name) <= 1
    \/ e.type \in {"method", "attribute"} /\ Len(e.name) <= 2

(* C6: an event whose owning module cannot be resolved leaves the whole   *)
(* registry unchanged (no record, no holder, no children or inheritance    *)
(* change), the build goes on, and no list is ever kept under the key ''.  *)
C6_UnresolvedDropped ==
    /\ [](\A m \in DOMAIN reg : m # <<>>)
    /\ [][(nev' = nev + 1 /\ Unresolvable(ev'))
           => (reg' = reg /\ phase' = phase /\ written' = written)]_vars

W6_DroppedAfterInsert ==
    /\ nev >= 2
    /\ Unresolvable(ev)
    /\ \E m \in DOMAIN reg : Len(reg[m]) >= 2

(* C8: at build completion one module document is written per registry    *)
(* key with a non-empty name, its items being that module's record list in *)
(* insertion order; the TOC holds one entry {name: m, href: m.yml} per     *)
(* such key, none for the empty key, and is written last.                  *)
C8_Serialized ==
    phase = "finished"
    => LET keys == DOMAIN reg \ {<<>>}
           n == Cardinality(keys)
       IN /\ Len(written) = n + 1
          /\ written[n + 1].file = <<"toc", "yml">>
          /\ Len(written[n + 1].toc) = n
          /\ \A i \in 1..n :
                \E m \in keys :
                    /\ written[i].file = Append(m, "yml")
                    /\ written[i].items = reg[m]
                    /\ written[n + 1].toc[i] = [name |-> m, href |-> Append(m, "yml")]
          /\ \A m \in keys :
                Cardinality({ i \in 1..n : written[i].file = Append(m, "yml") }) = 1

W8_FourItemsAndEmptyKey ==
    /\ phase = "finished"
    /\ <<>> \in DOMAIN reg
    /\ \E i \in 1..Len(written) :
          /\ Len(written[i].items) = 4
          /\ \E j \in 1..4 : IsHolder(written[i].items[j])
          /\ \E j \in 1..4 : IsMember(written[i].items[j])

RECURSIVE Reach(_, _, _)
(* the classes within n base-steps of one of the classes S *)
Reach(b, S, n) ==
    IF n = 0 THEN S
    ELSE Reach(b, S \cup UNION { Range(b[c]) : c \in S }, n - 1)

(* every ancestor of class o, at any depth *)
Ancestors(b, o) == Reach(b, Range(b[o]), Cardinality(Classes))

RECURSIVE Repeat(_, _)
Repeat(s, n) == IF n = 0 THEN <<>> ELSE s \o Repeat(s, n - 1)

ChainList == << <<"a", "A">>, <<"a", "B">>, <<"a", "C">> >>

(* C7 as stated: resolution is transitive and idempotent; for the chain   *)
(* A -> B -> C the list is exactly [A, B, C], and it is still that list    *)
(* when the resolver is applied to the record again.                       *)
C7_TransitiveIdempotent ==
    (napply >= 1 /\ robj \in Classes)
    => /\ Range(rec.inheritance) = { _fullname(c) : c \in Ancestors(bases, robj) }
       /\ (bases = ChainBases /\ robj = "X") => rec.inheritance = ChainList

(* C7 as amended: resolution is transitive but appends on every           *)
(* application. The first application to a fresh record of a class with    *)
(* chain A -> B -> C gives exactly [A, B, C] (every ancestor at any depth  *)
(* is listed, an immediate base first); applying the resolver to the same  *)
(* record again appends the same names once more, so after n applications  *)
(* the list is n copies of the first result.                               *)
C7_TransitiveAppending ==
    /\ (napply = 0 \/ robj \notin Classes) => rec.inheritance = NoList
    /\ (napply >= 1 /\ robj \in Classes)
       => LET inh == rec.inheritance
              blk == Len(inh) \div napply
          IN /\ Range(inh) = { _fullname(c) : c \in Ancestors(bases, robj) }
             /\ Len(inh) = blk * napply
             /\ \A i \in 1..(Len(inh) - blk) : inh[i + blk] = inh[i]
             /\ bases[robj] # <<>> => inh[1] = _fullname(bases[robj][1])
             /\ (bases = ChainBases /\ robj = "X") => inh = Repeat(ChainList, napply)

W7_ChainResolvedTwice ==
    /\ bases = ChainBases
    /\ robj = "X"
    /\ napply = 2
    /\ rec.inheritance = ChainList \o ChainList

TypeFollowsReturnRule(kind, e) ==
    LET key == <<kind, e.id>>
    IN IF key \in DOMAIN types
       THEN e.has_type /\ e.type = ReturnTypes(transform_node(types[key]))
       ELSE ~e.has_type /\ e.type = <<>>

(* C9: the type list emitted for every parameter and every variable is    *)
(* the return-type rule applied to its declared type text (split on        *)
(* ' or ', one leading '@' or '~' and the trailing newline stripped from   *)
(* each candidate); without a type-table entry the list is empty and the   *)
(* type key is omitted.                                                    *)
C9_TypesFollowReturnRule ==
    fpc = "done"
    => /\ \A k \in 1..Len(data.parameters) :
             TypeFollowsReturnRule("parameter", data.parameters[k])
       /\ \A k \in 1..Len(data.variables) :
             TypeFollowsReturnRule("variable", data.variables[k])

IsRawRaise(x) == ~x.has_description

(* C10: whatever parameter or variable entries the field list has, each   *)
(* paragraph of a 'Raises' field body holding a cross-reference with a     *)
(* literal child contributes exactly one {type: reference-target} entry to *)
(* exceptions[].                                                           *)
C10_RaisesIndependent ==
    fpc = "done"
    => LET ret_list == extract_exception_desc(node)
       IN SelectSeq(data.exceptions, IsRawRaise)
          = [k \in 1..Len(ret_list) |->
                [type |-> ret_list[k].type, has_description |-> FALSE, description |-> <<>>]]

(* --------------------------------------------- one event, one parent *)
(* the step handles one discovery event *)
Handled == nev' = nev + 1

(* records that were in the registry before the step and whose children   *)
(* list differs after it                                                   *)
ChildrenChanged ==
    { p \in Slots : reg'[p[1]][p[2]].children # At(p).children }

(* every record the step added (a position past the old end of a list)   *)
(* starts with no uid in its children                                      *)
AddedChildless ==
    \A m \in DOMAIN reg' : \A i \in 1..Len(reg'[m]) :
        (m \notin DOMAIN reg \/ i > Len(reg[m]))
        => reg'[m][i].children \in {<<>>, NoList}

(* the owning module and owning class an event name stands for *)
OwnerModule(e) ==
    IF e.type = "module" THEN e.name
    ELSE IF e.type \in {"method", "attribute"} THEN Front(e.name, 2)
    ELSE Front(e.name, 1)

OwnerClass(e) == Front(e.name, 1)

(* positions of the records of the event's module list, as it was before  *)
(* the step, that one of the three linking rules accepts as the parent     *)
Candidates(e) ==
    LET m == OwnerModule(e)
    IN IF Unresolvable(e) \/ m \notin DOMAIN reg THEN {}
       ELSE { i \in 1..Len(reg[m]) :
                \/ /\ e.type \in {"method", "attribute"}
                   /\ reg[m][i]._type = "class"
                   /\ reg[m][i].uid = OwnerClass(e)
                \/ /\ e.type = "function"
                   /\ reg[m][i]._type = "class"
                   /\ reg[m][i].name = Append(m, "Global")
                \/ /\ e.type \in {"class", "exception"}
                   /\ reg[m][i]._type = "module" }

OneParentStep ==
    Handled =>
        LET changed == ChildrenChanged
            cands == Candidates(ev')
        IN /\ Cardinality(changed) <= 1
           /\ \A p \in changed :
                 reg'[p[1]][p[2]].children = Append(At(p).children, ev'.name)
           /\ AddedChildless
           /\ cands # {} => changed = {<<OwnerModule(ev'), Min(cands)>>}
           /\ cands = {} => changed = {}

ClassUnderModuleStep ==
    (/\ Handled
     /\ ev'.type \in {"class", "exception"}
     /\ OwnerModule(ev') \in DOMAIN reg
     /\ \E i \in 1..Len(reg[OwnerModule(ev')]) :
            reg[OwnerModule(ev')][i].uid = OwnerModule(ev')
            /\ IsModuleRecord(reg[OwnerModule(ev')][i]))
    => \E p \in Slots :
          /\ p[1] = OwnerModule(ev')
          /\ IsModuleRecord(At(p))
          /\ ChildrenChanged = {p}

(* uids that are in some children list of the registry r *)
Linked(r) ==
    UNION { UNION { ChildrenOf(r[m][i]) : i \in 1..Len(r[m]) } : m \in DOMAIN r }

(* a uid enters the children lists only while its own event is handled *)
StaysParentlessStep ==
    \A u \in Linked(reg') \ Linked(reg) : Handled /\ ev'.name = u

(* an event's record whose uid is in no children list keeps it in none,   *)
(* whatever is handled next (an object of another kind that bears the same *)
(* name is left aside)                                                     *)
ParentlessForeverStep ==
    \A p \in Slots :
        (/\ ~IsHolder(At(p))
         /\ At(p).uid \notin Linked(reg)
         /\ (Handled /\ ev'.name = At(p).uid) => ev'.type = At(p)._type)
        => At(p).uid \notin Linked(reg')

(* C11: a handled event appends its uid to at most one children list, the *)
(* one of the first record of its module list (insertion order) that a     *)
(* linking rule accepts; a class or exception event handled after its      *)
(* module's event appends its uid to a module record of that module and to *)
(* no other list; an event no record matches changes no children list, and *)
(* the uid of a record that is in no children list is in none in every     *)
(* later state.                                                            *)
C11_ParentlessForever ==
    [][OneParentStep /\ ClassUnderModuleStep /\ ParentlessForeverStep]_vars

(* C11 as amended: the same, except that the last part holds step by step: *)
(* a uid enters a children list only while an event of that very name is   *)
(* handled, so discovering the parent never links a record that was left   *)
(* parentless; only handling an event of the record's own name again does. *)
C11_OneParentFirstMatch ==
    [][OneParentStep /\ ClassUnderModuleStep /\ StaysParentlessStep]_vars

(* a member handled before its class, the class handled later and left    *)
(* without children, and that class linked under its module record         *)
W11_OrphanBeforeParent ==
    \E m \in DOMAIN reg : \E i, j, k \in 1..Len(reg[m]) :
        /\ i < j
        /\ IsMember(reg[m][i])
        /\ IsRealClass(reg[m][j])
        /\ reg[m][j].uid = reg[m][i].class
        /\ reg[m][j].children = <<>>
        /\ reg[m][i].uid \notin Linked(reg)
        /\ IsModuleRecord(reg[m][k])
        /\ reg[m][k].children = <<reg[m][j].uid>>

(* ------------------------------------------------ append-only registry *)
IsPrefix(s, t) == Len(s) <= Len(t) /\ SubSeq(t, 1, Len(s)) = s

(* no list disappears or gets shorter, every record keeps its position,   *)
(* and a record differs after the step at most by a longer children list   *)
ExistingKept ==
    /\ DOMAIN reg \subseteq DOMAIN reg'
    /\ \A m \in DOMAIN reg :
          /\ Len(reg'[m]) >= Len(reg[m])
          /\ \A i \in 1..Len(reg[m]) :
                /\ [reg'[m][i] EXCEPT !.children = reg[m][i].children] = reg[m][i]
                /\ IF reg[m][i].children = NoList
                   THEN reg'[m][i].children = NoList
                   ELSE IsPrefix(reg[m][i].children, reg'[m][i].children)

(* the list of module m grew by the event's record (and by a holder after *)
(* it when the event is a module event) and no other list changed          *)
AppendedTo(m) ==
    LET old == IF m \in DOMAIN reg THEN Len(reg[m]) ELSE 0
        k == IF ev'.type = "module" THEN 2 ELSE 1
    IN /\ DOMAIN reg' = DOMAIN reg \cup {m}
       /\ Len(reg'[m]) = old + k
       /\ reg'[m][old + 1].uid = ev'.name
       /\ reg'[m][old + 1]._type = ev'.type
       /\ reg'[m][old + 1].module = m
       /\ ~IsHolder(reg'[m][old + 1])
       /\ ev'.type = "module" => IsHolder(reg'[m][old + 2])
       /\ \A m2 \in DOMAIN reg \ {m} : reg'[m2] = reg[m2]

(* C12: the registry is append-only: handling any discovery event appends *)
(* exactly one record for that event to its owning module's list (plus the *)
(* holder for a module event), removes and reorders no record, changes an  *)
(* existing record only by appending to its children, and leaves every     *)
(* other field and every other module's list unchanged.                    *)
C12_AnyEventAppendsOne ==
    [][ExistingKept /\ (Handled => AppendedTo(OwnerModule(ev')))]_vars

(* C12 as amended: the same for every event whose owning module can be    *)
(* resolved; an event whose owning module cannot be resolved appends no    *)
(* record, and every step leaves the existing records as described.        *)
C12_AppendOnly ==
    [][/\ ExistingKept
       /\ (Handled /\ ~Unresolvable(ev')) => AppendedTo(OwnerModule(ev'))
       /\ (Handled /\ Unresolvable(ev')) => reg' = reg]_vars

(* two module lists, one of them with a module record that got a child    *)
(* after it was inserted                                                   *)
W12_GrownParentTwoLists ==
    /\ Cardinality(DOMAIN reg) >= 2
    /\ ev.type = "module"
    /\ \E m \in DOMAIN reg : \E i \in 1..Len(reg[m]) :
          IsModuleRecord(reg[m][i]) /\ Len(reg[m][i].children) >= 1

(* --------------------------------------------- what becomes of a field *)
KindOf(f) == typemap(f.name[1]).name

ArgOf(f) == SubSeq(f.name, 2, Len(f.name))

(* unknown kind, or an argument where none is allowed, or none where one  *)
(* is required                                                             *)
IsPassthrough(f) ==
    KindOf(f) = "None" \/ has_arg(KindOf(f)) # (ArgOf(f) # <<>>)

IsTypeField(f) == ~IsPassthrough(f) /\ typemap(f.name[1]).is_typefield

IsContentField(f) == ~IsPassthrough(f) /\ ~IsTypeField(f)

(* ':param T x:' names a type before the argument *)
IsCombined(f) ==
    IsContentField(f) /\ is_typed(KindOf(f)) /\ Len(ArgOf(f)) >= 2

ArgName(f) == IF IsCombined(f) THEN SubSeq(f.name, 3, Len(f.name)) ELSE ArgOf(f)

(* the content fields of kind k, by input position *)
GroupOf(fs, k) ==
    { j \in 1..Len(fs) : IsContentField(fs[j]) /\ KindOf(fs[j]) = k }

(* field i starts an entry of its own *)
Opens(fs, i) ==
    \/ IsPassthrough(fs[i])
    \/ /\ IsContentField(fs[i])
       /\ is_grouped(KindOf(fs[i])) => \A j \in GroupOf(fs, KindOf(fs[i])) : i <= j

(* the position in the entries of the entry that field i starts *)
EntryIndex(fs, i) == Cardinality({ j \in 1..i : Opens(fs, j) })

EntriesAsClaimed(fs, out, ents) ==
    /\ Len(out) = Len(fs)
    /\ Len(ents) = Cardinality({ i \in 1..Len(fs) : Opens(fs, i) })
    /\ \A i \in 1..Len(fs) :
          LET f == fs[i]
              e == ents[EntryIndex(fs, i)]
          IN /\ IsPassthrough(f)
                => /\ out[i] = [f EXCEPT !.name[1] = Capitalized(@)]
                   /\ e = [kind |-> "field", name |-> out[i].name, items |-> <<>>]
             /\ ~IsPassthrough(f) => out[i] = f
             /\ (IsContentField(f) /\ ~is_grouped(KindOf(f)))
                => /\ e.kind = KindOf(f)
                   /\ e.items = <<[arg |-> ArgName(f), content |-> Content(f.body)]>>
             /\ (IsContentField(f) /\ is_grouped(KindOf(f)) /\ Opens(fs, i))
                => LET g == GroupOf(fs, KindOf(f))
                   IN /\ e.kind = KindOf(f)
                      /\ Len(e.items) = Cardinality(g)
                      /\ \A j \in g :
                            e.items[Cardinality({ h \in g : h <= j })]
                               = [arg |-> ArgName(fs[j]), content |-> Content(fs[j].body)]

(* the fields that write the type of an argument: a type field with       *)
(* inline content, and a content field that names a type before its        *)
(* argument                                                                *)
TypeKey(f) == <<KindOf(f), ArgName(f)>>

Declares(f) ==
    \/ IsTypeField(f) /\ SelectSeq(Content(f.body), IsInline) # <<>>
    \/ IsCombined(f)

Declared(f) ==
    IF IsTypeField(f) THEN SelectSeq(Content(f.body), IsInline)
    ELSE Plain(<<f.name[2]>>)

TypesAsClaimed(fs, tps) ==
    /\ DOMAIN tps = { TypeKey(fs[i]) : i \in { j \in 1..Len(fs) : Declares(fs[j]) } }
    /\ \A i \in 1..Len(fs) :
          (/\ Declares(fs[i])
           /\ \A j \in i + 1..Len(fs) :
                 ~(Declares(fs[j]) /\ TypeKey(fs[j]) = TypeKey(fs[i])))
          => tps[TypeKey(fs[i])] = Declared(fs[i])

(* C13: the field-list parser drops no non-type field: a field of unknown *)
(* kind or with an argument-presence mismatch stays at its position in the *)
(* field list with only the first letter of its label capitalised and is   *)
(* exactly one entry; a recognised non-grouped field is one entry per      *)
(* occurrence; the fields of a grouped kind are, in input order, the items *)
(* of one entry that stands where the kind's first field would; the        *)
(* entries follow the input order; a type field is no entry and only sets  *)
(* the declared type of its argument in the type table.                    *)
C13_NoFieldDropped ==
    [][fpc' = "done"
       => /\ EntriesAsClaimed(node, node', entries')
          /\ TypesAsClaimed(node, types')]_vars

(* an unknown field between two fields of one grouped kind: a two-item    *)
(* group entry followed by the passed-through field                        *)
W13_GroupAroundUnknown ==
    /\ fpc = "done"
    /\ Len(node) = 3
    /\ Len(entries) = 2
    /\ entries[1].kind = "parameter" /\ Len(entries[1].items) = 2
    /\ entries[2].kind = "field" /\ entries[2].name = <<"Foo">>
    /\ node[2].name = <<"Foo">>

====
